---- MODULE Spec2Model ----
(***************************************************************************)
(* Build status resolution (getProjectStatus) and the live log tail loop   *)
(* (watchProject) of jenkins-project-cli, src/index.js.                     *)
(*                                                                         *)
(* JavaScript values are records [t, v]: t is the kind of the value and v   *)
(* its number (0 for the kinds that carry none), so that any two values     *)
(* can be compared.                                                         *)
(***************************************************************************)
EXTENDS Integers, Sequences, FiniteSets, TLC

\* ------------------------------------------------------------------ bounds

\* Build numbers enumerated for the snapshots of the resolver specification.
MaxBuild == 5
\* Builds the CI server may start during one watch.
MaxServerBuild == 2
\* Polling iterations of one watch.
MaxPolls == 4
\* Short log lengths (lines) a log fetch may return, besides the lengths
\* around the truncation limit.
MaxShortLog == 2
\* Extra milliseconds (fetch latency, timer lateness) an iteration may take
\* on top of the fixed delay.
MaxJitter == 600

\* ------------------------------------------------------- program constants

\* setTimeout(..., 1000)
Delay == 1000
\* new Date() - lastChange > 3000
IdleThreshold == 3000
\* log.length === 10000
TruncatedLength == 10000

\* -------------------------------------------------------- JavaScript values

Num(n) == [t |-> "number", v |-> n]
Undefined == [t |-> "undefined", v |-> 0]
Null == [t |-> "null", v |-> 0]
NaN == [t |-> "NaN", v |-> 0]
Infinity == [t |-> "Infinity", v |-> 0]

\* ToBoolean: undefined, null, NaN and 0 are falsy.
Truthy(a) == ~(a.t \in {"undefined", "null", "NaN"} \/ (a.t = "number" /\ a.v = 0))

\* a || b
Or(a, b) == IF Truthy(a) THEN a ELSE b

\* a === b (NaN is equal to nothing)
StrictEq(a, b) == a.t # "NaN" /\ a = b

\* ToNumber: undefined becomes NaN, null becomes 0.
ToNumber(a) ==
  IF a.t = "undefined" THEN NaN
  ELSE IF a.t = "null" THEN Num(0)
  ELSE a

\* a < b: false as soon as one side is NaN.
Less(a, b) ==
  LET x == ToNumber(a)
      y == ToNumber(b)
  IN  /\ x.t # "NaN"
      /\ y.t # "NaN"
      /\ \/ x.t = "number" /\ y.t = "number" /\ x.v < y.v
         \/ x.t = "number" /\ y.t = "Infinity"

\* a + 1
PlusOne(a) ==
  LET x == ToNumber(a)
  IN  IF x.t = "number" THEN Num(x.v + 1) ELSE x

\* (ref || {}).number, ref being null or a build reference {number: n}
NumberOf(ref) == IF Truthy(ref) THEN ref ELSE Undefined

\* ------------------------------------------------------------ getProjectStatus

\* buildStatus with the canceled comparison ahead of the failing one.
BuildStatusCanceledFirst(data) ==
  LET lastCompletedId == NumberOf(data.lastCompletedBuild)
      lastSuccessfullId == NumberOf(data.lastSuccessfulBuild)
      lastFailedId == NumberOf(data.lastFailedBuild)
      lastCanceled == NumberOf(data.lastUnsuccessfulBuild)
  IN  IF data.lastCompletedBuild = Null THEN "unknown"
      ELSE IF StrictEq(lastSuccessfullId, lastCompletedId) THEN "passing"
      ELSE IF StrictEq(lastCanceled, lastCompletedId) THEN "canceled"
      ELSE IF StrictEq(lastFailedId, lastCompletedId) THEN "failing"
      ELSE "unknown"

\* const buildStatus = ...
BuildStatusOf(data) ==
  LET lastCompletedId == NumberOf(data.lastCompletedBuild)
      lastSuccessfullId == NumberOf(data.lastSuccessfulBuild)
      lastFailedId == NumberOf(data.lastFailedBuild)
      lastCanceled == NumberOf(data.lastUnsuccessfulBuild)
  IN  IF data.lastCompletedBuild = Null THEN "unknown"
      ELSE IF StrictEq(lastSuccessfullId, lastCompletedId) THEN "passing"
      ELSE IF StrictEq(lastFailedId, lastCompletedId) THEN "failing"
      ELSE IF StrictEq(lastCanceled, lastCompletedId) THEN "canceled"
      ELSE "unknown"

\* currentStatus without the guard for a job that never completed a build.
CurrentStatusUnguarded(data) ==
  LET lastSuccessfullId == NumberOf(data.lastSuccessfulBuild)
      lastId == NumberOf(data.lastBuild)
      lastFailedId == NumberOf(data.lastFailedBuild)
      lastCanceled == NumberOf(data.lastUnsuccessfulBuild)
  IN  IF StrictEq(lastSuccessfullId, lastId) THEN "passing"
      ELSE IF StrictEq(lastFailedId, lastId) THEN "failing"
      ELSE IF StrictEq(lastCanceled, lastId) THEN "canceled"
      ELSE "running"

\* currentStatus compared against the last completed build.
CurrentStatusOfCompleted(data) ==
  LET lastSuccessfullId == NumberOf(data.lastSuccessfulBuild)
      lastId == NumberOf(data.lastCompletedBuild)
      lastFailedId == NumberOf(data.lastFailedBuild)
      lastCanceled == NumberOf(data.lastUnsuccessfulBuild)
  IN  IF data.lastCompletedBuild = Null THEN "unknown"
      ELSE IF StrictEq(lastSuccessfullId, lastId) THEN "passing"
      ELSE IF StrictEq(lastFailedId, lastId) THEN "failing"
      ELSE IF StrictEq(lastCanceled, lastId) THEN "canceled"
      ELSE "running"

\* const currentStatus = ...
CurrentStatusOf(data) ==
  LET lastSuccessfullId == NumberOf(data.lastSuccessfulBuild)
      lastId == NumberOf(data.lastBuild)
      lastFailedId == NumberOf(data.lastFailedBuild)
      lastCanceled == NumberOf(data.lastUnsuccessfulBuild)
  IN  IF data.lastCompletedBuild = Null THEN "unknown"
      ELSE IF StrictEq(lastSuccessfullId, lastId) THEN "passing"
      ELSE IF StrictEq(lastFailedId, lastId) THEN "failing"
      ELSE IF StrictEq(lastCanceled, lastId) THEN "canceled"
      ELSE "running"

\* buildId falling back to the last build instead of null.
BuildIdOrLast(data, runningProject) ==
  LET lastCompletedId == NumberOf(data.lastCompletedBuild)
      lastId == NumberOf(data.lastBuild)
  IN  IF data.inQueue
      THEN (IF runningProject THEN lastId ELSE PlusOne(lastId))
      ELSE IF Less(lastCompletedId, lastId) THEN PlusOne(lastCompletedId)
      ELSE lastId

\* const buildId = ...
BuildIdOf(data, runningProject) ==
  LET lastCompletedId == NumberOf(data.lastCompletedBuild)
      lastId == NumberOf(data.lastBuild)
  IN  IF data.inQueue
      THEN (IF runningProject THEN lastId ELSE PlusOne(lastId))
      ELSE IF Less(lastCompletedId, lastId) THEN PlusOne(lastCompletedId)
      ELSE Null

\* const etaTime = ...; queueItem is null or stands for the queue item by its
\* buildableStartMilliseconds (undefined when the item carries none).
EtaTimeOf(data) ==
  IF data.inQueue
  THEN Or(NumberOf(data.queueItem), Infinity)
  ELSE Num(0)

\* running with the queue flag left out.
RunningUnqueued(data) ==
  Less(NumberOf(data.lastCompletedBuild), NumberOf(data.lastBuild))

\* running: data.inQueue || lastCompletedId < lastId
RunningOf(data) ==
  data.inQueue \/ Less(NumberOf(data.lastCompletedBuild), NumberOf(data.lastBuild))

getProjectStatus(data, runningProject) ==
  [ running |-> RunningOf(data),
    queued  |-> data.inQueue,
    current |-> CurrentStatusOf(data),
    status  |-> BuildStatusOf(data),
    last    |-> NumberOf(data.lastBuild),
    build   |-> BuildIdOf(data, runningProject),
    eta     |-> EtaTimeOf(data) ]


\* -------------------------------------------------------------------- state

VARIABLES
  job,            \* the job as the CI server reports it (api.job.get)
  runningProject, \* watchProject's flag: watching an already running project
  line,           \* var line: log lines already printed
  count,          \* var count: polling iterations so far
  lastChange,     \* var lastChange: time of the last printed output
  builds,         \* var builds
  now,            \* the clock read by new Date(), in milliseconds
  pc,             \* what the watch (or the resolver call) is waiting for
  data,           \* <<status>> handed to the timer callback, <<>> for undefined
  outer,          \* the promise watchProject returns
  inner,          \* the promise of the polling iteration in flight
  result,         \* <<status>> the returned promise was resolved with
  failure,        \* the fetch that failed, "none" if none did
  logBuild,       \* build number of the log fetched last
  logLen,         \* number of lines of the log fetched last
  last,           \* what the latest polling iteration did and showed
  seen,           \* the distinct build numbers the polls resolved, in order
  report          \* what the task made of the status the watch resolved with

vars == << job, runningProject, line, count, lastChange, builds, now, pc, data,
           outer, inner, result, failure, logBuild, logLen, last, seen,
           report >>

\* ---------------------------------------------------------------- CI server

\* A job that was never built and has nothing queued.
EmptyJob ==
  [ lastCompletedBuild   |-> Null,
    lastSuccessfulBuild  |-> Null,
    lastBuild            |-> Null,
    lastFailedBuild      |-> Null,
    lastUnsuccessfulBuild |-> Null,
    inQueue              |-> FALSE,
    queueItem            |-> Null ]

\* Number of builds the server has started for the job.
Started == IF job.lastBuild = Null THEN 0 ELSE job.lastBuild.v

\* buildableStartMilliseconds of a queue item: none, or an estimate.
QueueEstimates == {Undefined, Num(Delay)}

\* A build is requested: the job enters the queue.
Enqueue ==
  /\ ~job.inQueue
  /\ Started < MaxServerBuild
  /\ \E q \in QueueEstimates :
       job' = [job EXCEPT !.inQueue = TRUE, !.queueItem = q]

\* The queued build starts and gets the next build number.
StartBuild ==
  /\ job.inQueue
  /\ job.lastCompletedBuild = job.lastBuild
  /\ job' = [job EXCEPT !.inQueue = FALSE, !.queueItem = Null,
                        !.lastBuild = Num(Started + 1)]

Outcomes == {"SUCCESS", "FAILURE", "ABORTED"}

\* The executing build finishes with an outcome.
CompleteBuild ==
  /\ job.lastCompletedBuild # job.lastBuild
  /\ \E o \in Outcomes :
       job' = [job EXCEPT
         !.lastCompletedBuild = job.lastBuild,
         !.lastSuccessfulBuild = IF o = "SUCCESS" THEN job.lastBuild ELSE @,
         !.lastFailedBuild = IF o = "FAILURE" THEN job.lastBuild ELSE @,
         !.lastUnsuccessfulBuild = IF o # "SUCCESS" THEN job.lastBuild ELSE @]

\* Log lengths a fetch may return: short ones and the ones around the limit.
LogLengths ==
  (1 .. MaxShortLog) \cup ((TruncatedLength - 1) .. (TruncatedLength + 1))

\* The server has a log for build id: id is the number of a started build.
HasLog(id) ==
  /\ id.t = "number"
  /\ id.v >= 1
  /\ id.v <= Started

\* ------------------------------------------------------------- watchProject

\* Array.prototype.indexOf, zero-based, -1 when absent.
IndexOf(arr, x) ==
  IF \E i \in 1 .. Len(arr) : StrictEq(arr[i], x)
  THEN (CHOOSE i \in 1 .. Len(arr) :
          /\ StrictEq(arr[i], x)
          /\ \A j \in 1 .. (i - 1) : ~StrictEq(arr[j], x)) - 1
  ELSE -1

\* arr[i], zero-based, undefined outside the array.
ArrayAt(arr, i) == IF i >= 0 /\ i < Len(arr) THEN arr[i + 1] ELSE Undefined

\* if (data.build && builds.indexOf(data.build) > -1) builds.push(data.build)
PushBuild(arr, build) ==
  IF Truthy(build) /\ IndexOf(arr, build) > -1 THEN Append(arr, build) ELSE arr

\* builds.length > 1: the iteration returns before any log or ETA work
HandOff(arr) == Len(arr) > 1

\* The tailing condition with the parentheses lost.
TailsUngrouped(status, flag) == (status.running /\ flag) \/ ~status.queued

\* data.running && (runningProject || !data.queued)
Tails(status, flag) == status.running /\ (flag \/ ~status.queued)

\* The whole log taken as the output, whatever was printed before.
OutputWhole(len, from) == len

\* log.slice(line).length
OutputLength(len, from) == IF len > from THEN len - from ELSE 0

\* The status line with the idle indicator from the threshold on.
StatusLineFromThreshold(len, elapsed) ==
  IF len = TruncatedLength THEN {"truncated"}
  ELSE IF elapsed >= IdleThreshold THEN {"idle"}
  ELSE {}

\* The status line with the warning from the limit on.
StatusLineFromLimit(len, elapsed) ==
  IF len >= TruncatedLength THEN {"truncated"}
  ELSE IF elapsed > IdleThreshold THEN {"idle"}
  ELSE {}

\* The status line written after the log was handled: the truncation warning,
\* else the idle indicator.
StatusLine(len, elapsed) ==
  IF len = TruncatedLength THEN {"truncated"}
  ELSE IF elapsed > IdleThreshold THEN {"idle"}
  ELSE {}

\* The branches of the iteration that fetch no log.
NoLogLine(status, flag) ==
  IF status.queued THEN {"queued"}
  ELSE IF flag /\ ~status.running THEN {"inactive"}
  ELSE {}

\* The loop going on whatever the resolved status says.
ContinueAlways(status, arr) == Len(arr) < 2

\* loop(data.running && builds.length < 2)
Continue(status, arr) == status.running /\ Len(arr) < 2

\* data.build = data.build || builds[builds.length]
FinalBuild(build, arr) == Or(build, ArrayAt(arr, Len(arr)))

\* The record of one polling iteration: the status it resolved, whether it
\* fetched the log ("none", "fetched", "failed"), the length of the log, the
\* number of lines it printed, the status line it wrote, the status line the
\* iteration before it wrote, and whether the log is the one fetched last
\* (same build, same length).
Iteration(status, log, len, printed, shown) ==
  [ build |-> status.build, running |-> status.running, queued |-> status.queued,
    log |-> log, len |-> len, printed |-> printed, shown |-> shown,
    before |-> last.shown,
    repeated |-> (log = "fetched" /\ status.build = logBuild /\ len = logLen) ]

\* Before the first iteration.
NoIteration ==
  [ build |-> Undefined, running |-> FALSE, queued |-> FALSE,
    log |-> "none", len |-> 0, printed |-> 0, shown |-> {}, before |-> {},
    repeated |-> FALSE ]

\* The build numbers resolved so far, each change of number recorded once.
Observe(arr, build) ==
  IF Truthy(build) /\ (arr = << >> \/ arr[Len(arr)] # build)
  THEN Append(arr, build)
  ELSE arr

\* No task has handled the resolved status yet.
NoReport == [severity |-> "none", message |-> "none"]

\* data.passing: the property passing of a resolved status, undefined when
\* the status has no such property.
Passing(status) ==
  IF "passing" \in DOMAIN status THEN status.passing ELSE Undefined

\* tasks.watch, the handler of the resolved status: severity and message.
tasksWatch(status) ==
  [ severity |-> IF Truthy(Passing(status)) THEN "info" ELSE "warn",
    message  |-> IF Truthy(Passing(status)) THEN "passed" ELSE "failed" ]

\* tasks.build, the handler of the resolved status: passed is logged,
\* canceled is warned about, anything else is thrown as an error.
tasksBuild(status) ==
  IF status.status = "passing"
  THEN [severity |-> "info", message |-> "passed"]
  ELSE IF status.status = "canceled"
  THEN [severity |-> "warn", message |-> "canceled"]
  ELSE [severity |-> "error", message |-> "failed"]

\* getProjectStatus of a polling iteration resolves.
StatusDone ==
  /\ pc = "status"
  /\ LET status == getProjectStatus(job, runningProject)
         pushed == PushBuild(builds, status.build)
     IN  /\ count' = count + 1
         /\ builds' = pushed
         /\ data' = << status >>
         /\ seen' = Observe(seen, status.build)
         /\ IF HandOff(pushed)
            THEN /\ pc' = "timer"
                 /\ last' = Iteration(status, "none", 0, 0, {})
            ELSE IF Tails(status, runningProject)
            THEN /\ pc' = "log"
                 /\ last' = last
            ELSE /\ pc' = "timer"
                 /\ last' = Iteration(status, "none", 0, 0,
                                      NoLogLine(status, runningProject))
  /\ UNCHANGED << job, runningProject, line, lastChange, now, outer, inner,
                  result, failure, logBuild, logLen, report >>

\* getProjectStatus of a polling iteration fails: .catch(reject) rejects the
\* promise of the iteration, and nothing is scheduled.
StatusFail ==
  /\ pc = "status"
  /\ pc' = "stopped"
  /\ inner' = "rejected"
  /\ failure' = "status"
  /\ UNCHANGED << job, runningProject, line, count, lastChange, builds, now,
                  data, outer, result, logBuild, logLen, last, seen,
                  report >>

\* getBuildLog resolves with a log of len lines.
LogDone ==
  /\ pc = "log"
  /\ HasLog(data[1].build)
  /\ \E len \in LogLengths :
       /\ (data[1].build = logBuild => len >= logLen)
       /\ LET printed == OutputLength(len, line)
              changed == IF printed > 0 THEN now ELSE lastChange
          IN  /\ line' = line + printed
              /\ lastChange' = changed
              /\ last' = Iteration(data[1], "fetched", len, printed,
                                   StatusLine(len, now - changed))
       /\ logBuild' = data[1].build
       /\ logLen' = len
  /\ pc' = "timer"
  /\ UNCHANGED << job, runningProject, count, builds, now, data, outer, inner,
                  result, failure, seen,
                  report >>

\* getBuildLog fails and the status is still handed on.
LogFailReturnsData ==
  /\ pc = "log"
  /\ pc' = "timer"
  /\ inner' = "rejected"
  /\ failure' = "log"
  /\ data' = data
  /\ last' = Iteration(data[1], "failed", 0, 0, {})
  /\ UNCHANGED << job, runningProject, line, count, lastChange, builds, now,
                  outer, result, logBuild, logLen, seen, report >>

\* getBuildLog fails: .catch(reject) rejects the promise of the iteration and
\* hands undefined to the next then, which still sets the timer.
LogFail ==
  /\ pc = "log"
  /\ pc' = "timer"
  /\ inner' = "rejected"
  /\ failure' = "log"
  /\ data' = << >>
  /\ last' = Iteration(data[1], "failed", 0, 0, {})
  /\ UNCHANGED << job, runningProject, line, count, lastChange, builds, now,
                  outer, result, logBuild, logLen, seen,
                  report >>

\* The callback run without waiting for the delay.
TimerFiresAtOnce ==
  /\ pc = "timer"
  /\ \E late \in {0, MaxJitter} : now' = now + late
  /\ IF data = << >>
     THEN /\ pc' = "crashed"
          /\ inner' = inner
     ELSE IF Continue(data[1], builds)
     THEN /\ count < MaxPolls
          /\ pc' = "status"
          /\ inner' = "pending"
     ELSE /\ pc' = "final"
          /\ inner' = inner
  /\ UNCHANGED << job, runningProject, line, count, lastChange, builds, data,
                  outer, result, failure, logBuild, logLen, last, seen,
                  report >>

\* The timer fires: loop(data.running && builds.length < 2). With data
\* undefined the callback throws, uncaught.
TimerFires ==
  /\ pc = "timer"
  /\ \E late \in {0, MaxJitter} : now' = now + Delay + late
  /\ IF data = << >>
     THEN /\ pc' = "crashed"
          /\ inner' = inner
     ELSE IF Continue(data[1], builds)
     THEN /\ count < MaxPolls
          /\ pc' = "status"
          /\ inner' = "pending"
     ELSE /\ pc' = "final"
          /\ inner' = inner
  /\ UNCHANGED << job, runningProject, line, count, lastChange, builds, data,
                  outer, result, failure, logBuild, logLen, last, seen,
                  report >>

\* The final getProjectStatus resolves: the returned promise is resolved.
FinalDone ==
  /\ pc = "final"
  /\ LET status == getProjectStatus(job, runningProject)
     IN  result' = << [status EXCEPT !.build = FinalBuild(status.build, builds)] >>
  /\ outer' = "resolved"
  /\ pc' = "done"
  /\ UNCHANGED << job, runningProject, line, count, lastChange, builds, now,
                  data, inner, failure, logBuild, logLen, last, seen,
                  report >>

\* The final getProjectStatus fails: nothing handles the rejection.
FinalFail ==
  /\ pc = "final"
  /\ pc' = "stopped"
  /\ failure' = "final"
  /\ UNCHANGED << job, runningProject, line, count, lastChange, builds, now,
                  data, outer, inner, result, logBuild, logLen, last, seen,
                  report >>

\* The task that called watchProject handles the resolved status:
\* tasks.watch watches a running project, tasks.build a project it started.
Reported ==
  /\ pc = "done"
  /\ pc' = "reported"
  /\ report' = IF runningProject THEN tasksWatch(result[1])
                                 ELSE tasksBuild(result[1])
  /\ UNCHANGED << job, runningProject, line, count, lastChange, builds, now,
                  data, outer, inner, result, failure, logBuild, logLen, last,
                  seen >>

\* The CI server moves on, any number of steps before a snapshot is taken.
Server ==
  /\ pc \in {"status", "final"}
  /\ (Enqueue \/ StartBuild \/ CompleteBuild)
  /\ UNCHANGED << runningProject, line, count, lastChange, builds, now, pc,
                  data, outer, inner, result, failure, logBuild, logLen, last,
                  seen, report >>

\* watchProject(projectName, runningProject, configuration) was called:
\* loop(true) has issued the first getProjectStatus.
Init ==
  /\ job = EmptyJob
  /\ runningProject \in BOOLEAN
  /\ line = 0
  /\ count = 0
  /\ now = 0
  /\ lastChange = 0
  /\ builds = << >>
  /\ pc = "status"
  /\ data = << >>
  /\ outer = "pending"
  /\ inner = "pending"
  /\ result = << >>
  /\ failure = "none"
  /\ logBuild = Undefined
  /\ logLen = 0
  /\ last = NoIteration
  /\ seen = << >>
  /\ report = NoReport

Next ==
  \/ StatusDone
  \/ StatusFail
  \/ LogDone
  \/ LogFail
  \/ TimerFires
  \/ FinalDone
  \/ FinalFail
  \/ Reported
  \/ Server

Spec == Init /\ [][Next]_vars


\* ------------------------------------------- getProjectStatus, called alone

\* A build reference of a snapshot: null, or a build number.
BuildRefs == {Null} \cup {Num(n) : n \in 1 .. MaxBuild}

\* Reference a is not beyond reference b: a is null, or both are build
\* numbers and a's is at most b's.
NotBeyond(a, b) == a = Null \/ (b # Null /\ a.v <= b.v)

\* Every snapshot api.job.get may hand to getProjectStatus: the completed
\* builds are not beyond the last build, and the builds known by their
\* outcome are not beyond the last completed one.
Snapshots ==
  { s \in [ lastCompletedBuild   : BuildRefs,
            lastSuccessfulBuild  : BuildRefs,
            lastBuild            : BuildRefs,
            lastFailedBuild      : BuildRefs,
            lastUnsuccessfulBuild : BuildRefs,
            inQueue              : BOOLEAN,
            queueItem            : {Null, Undefined, Num(0), Num(Delay)} ] :
      /\ NotBeyond(s.lastCompletedBuild, s.lastBuild)
      /\ NotBeyond(s.lastSuccessfulBuild, s.lastCompletedBuild)
      /\ NotBeyond(s.lastFailedBuild, s.lastCompletedBuild)
      /\ NotBeyond(s.lastUnsuccessfulBuild, s.lastCompletedBuild)
      /\ (s.inQueue \/ s.queueItem = Null) }

\* getProjectStatus(projectName, runningProject, configuration) is called on
\* a snapshot.
InitResolver ==
  /\ job \in Snapshots
  /\ runningProject \in BOOLEAN
  /\ pc = "call"
  /\ line = 0
  /\ count = 0
  /\ now = 0
  /\ lastChange = 0
  /\ builds = << >>
  /\ data = << >>
  /\ outer = "pending"
  /\ inner = "pending"
  /\ result = << >>
  /\ failure = "none"
  /\ logBuild = Undefined
  /\ logLen = 0
  /\ last = NoIteration
  /\ seen = << >>
  /\ report = NoReport

\* The call returns the resolved status.
Resolve ==
  /\ pc = "call"
  /\ pc' = "returned"
  /\ data' = << getProjectStatus(job, runningProject) >>
  /\ UNCHANGED << job, runningProject, line, count, lastChange, builds, now,
                  outer, inner, result, failure, logBuild, logLen, last, seen,
                  report >>

NextResolver == Resolve

SpecResolver == InitResolver /\ [][NextResolver]_vars


\* ------------------------------------------------- claims: getProjectStatus

\* The snapshot's last completed, last successful and last build are one and
\* the same build number.
SameThree ==
  /\ job.lastCompletedBuild # Null
  /\ job.lastSuccessfulBuild = job.lastCompletedBuild
  /\ job.lastBuild = job.lastCompletedBuild

\* C2, as claimed: whenever lastCompletedBuild, lastSuccessfulBuild and
\* lastBuild are the same build number, the resolved status has status =
\* passing, current = passing and running = false, whatever inQueue is.
C2_PassingNeverRunning ==
  (pc = "returned" /\ SameThree) =>
    /\ data[1].status = "passing"
    /\ data[1].current = "passing"
    /\ data[1].running = FALSE

\* C2, amended: whenever the three are the same build number, status =
\* passing and current = passing, and running is the snapshot's inQueue (false
\* when nothing is queued, true when a build is queued).
C2_PassingRunningIffQueued ==
  (pc = "returned" /\ SameThree) =>
    /\ data[1].status = "passing"
    /\ data[1].current = "passing"
    /\ data[1].running = job.inQueue

\* C2, witness: such a snapshot with a build queued was resolved as running.
C2_Witness ==
  /\ pc = "returned"
  /\ SameThree
  /\ job.inQueue
  /\ job.lastFailedBuild = job.lastCompletedBuild
  /\ data[1].running

\* The snapshot {lastCompletedBuild: 5, lastSuccessfulBuild: 5, lastBuild: 5,
\* inQueue: false}, whatever its other fields.
AllFive ==
  /\ job.lastCompletedBuild = Num(5)
  /\ job.lastSuccessfulBuild = Num(5)
  /\ job.lastBuild = Num(5)
  /\ ~job.inQueue

\* C3, as claimed: that snapshot resolves to exactly {running: false, queued:
\* false, current: passing, status: passing, last: 5, build: 5, eta: 0}.
C3_ScenarioBuildFive ==
  (pc = "returned" /\ AllFive) =>
    data[1] = [ running |-> FALSE, queued |-> FALSE, current |-> "passing",
                status |-> "passing", last |-> Num(5), build |-> Num(5),
                eta |-> Num(0) ]

\* C3, amended: that snapshot resolves to exactly {running: false, queued:
\* false, current: passing, status: passing, last: 5, build: null, eta: 0}.
C3_ScenarioBuildNull ==
  (pc = "returned" /\ AllFive) =>
    data[1] = [ running |-> FALSE, queued |-> FALSE, current |-> "passing",
                status |-> "passing", last |-> Num(5), build |-> Null,
                eta |-> Num(0) ]

\* C3, witness: the snapshot of the scenario was resolved.
C3_Witness == pc = "returned" /\ AllFive /\ data[1].last = Num(5)

\* C9: a snapshot without lastCompletedBuild resolves to status = unknown and
\* current = unknown whatever its other fields, and every snapshot resolves
\* to a status whose classifications and flags are defined.
C9_NeverCompletedUnknown ==
  pc = "returned" =>
    /\ job.lastCompletedBuild = Null =>
         (data[1].status = "unknown" /\ data[1].current = "unknown")
    /\ data[1].status \in {"unknown", "passing", "failing", "canceled"}
    /\ data[1].current \in {"unknown", "passing", "failing", "canceled", "running"}
    /\ data[1].running \in BOOLEAN
    /\ data[1].queued \in BOOLEAN

\* C9, witness: a snapshot with no build reference at all was resolved, and
\* one without lastCompletedBuild whose other references are set.
C9_Witness ==
  /\ pc = "returned"
  /\ job.lastCompletedBuild = Null
  /\ \/ /\ job.lastBuild = Null
        /\ job.lastSuccessfulBuild = Null
        /\ job.lastFailedBuild = Null
        /\ job.lastUnsuccessfulBuild = Null
     \/ /\ job.lastBuild # Null
        /\ job.lastSuccessfulBuild = job.lastBuild
  /\ data[1].current = "unknown"

\* A build number: a number from 1 on.
IsBuildNumber(a) == a.t = "number" /\ a.v >= 1

\* C10, as claimed: the resolved build follows the four-case rule, and is
\* always null or a build number.
C10_BuildRule ==
  pc = "returned" =>
    LET build == data[1].build
        lastBuild == job.lastBuild
        lastCompletedBuild == job.lastCompletedBuild
        beyond == /\ lastBuild # Null
                  /\ lastCompletedBuild # Null
                  /\ lastCompletedBuild.v < lastBuild.v
    IN  /\ build = Null \/ IsBuildNumber(build)
        /\ (job.inQueue /\ runningProject /\ lastBuild # Null) =>
             build = lastBuild
        /\ (job.inQueue /\ ~runningProject /\ lastBuild # Null) =>
             build = Num(lastBuild.v + 1)
        /\ (~job.inQueue /\ beyond) => build = Num(lastCompletedBuild.v + 1)
        /\ (~job.inQueue /\ lastBuild # Null /\ lastCompletedBuild # Null /\ ~beyond) =>
             build = Null


\* The first of passing, failing, canceled whose build reference (last
\* successful, last failed, last unsuccessful) is the build ref, else none.
FirstMatch(ref, none) ==
  IF job.lastSuccessfulBuild = ref THEN "passing"
  ELSE IF job.lastFailedBuild = ref THEN "failing"
  ELSE IF job.lastUnsuccessfulBuild = ref THEN "canceled"
  ELSE none

\* C11: with lastCompletedBuild present, status is the first match of
\* lastCompletedBuild against lastSuccessfulBuild, lastFailedBuild and
\* lastUnsuccessfulBuild, unknown when none matches; it is one of unknown,
\* passing, failing, canceled; and the snapshots that differ from the
\* resolved one only in lastBuild, inQueue or queueItem resolve to the same
\* status.
C11_StatusOfLastCompleted ==
  pc = "returned" =>
    /\ job.lastCompletedBuild # Null =>
         data[1].status = FirstMatch(job.lastCompletedBuild, "unknown")
    /\ data[1].status \in {"unknown", "passing", "failing", "canceled"}
    /\ \A lastBuild \in BuildRefs, inQueue \in BOOLEAN,
          queueItem \in {Null, Undefined, Num(Delay)} :
         getProjectStatus([job EXCEPT !.lastBuild = lastBuild,
                                      !.inQueue = inQueue,
                                      !.queueItem = queueItem],
                          runningProject).status = data[1].status

\* C11, witness: the last completed build failed (it is the last failed and
\* the last unsuccessful build) while a later build is in progress, and the
\* status is failing.
C11_Witness ==
  /\ pc = "returned"
  /\ job.lastCompletedBuild # Null
  /\ job.lastFailedBuild = job.lastCompletedBuild
  /\ job.lastUnsuccessfulBuild = job.lastCompletedBuild
  /\ job.lastSuccessfulBuild # job.lastCompletedBuild
  /\ job.lastBuild # job.lastCompletedBuild
  /\ data[1].status = "failing"

\* C12: with lastCompletedBuild present, current is the first match of
\* lastBuild against lastSuccessfulBuild, lastFailedBuild and
\* lastUnsuccessfulBuild, running when none matches; so when
\* lastCompletedBuild < lastBuild and none of the three is lastBuild, current
\* is running and running is true.
C12_CurrentOfLastBuild ==
  (pc = "returned" /\ job.lastCompletedBuild # Null) =>
    /\ data[1].current = FirstMatch(job.lastBuild, "running")
    /\ ( /\ job.lastBuild # Null
         /\ job.lastCompletedBuild.v < job.lastBuild.v
         /\ job.lastSuccessfulBuild # job.lastBuild
         /\ job.lastFailedBuild # job.lastBuild
         /\ job.lastUnsuccessfulBuild # job.lastBuild ) =>
         (data[1].current = "running" /\ data[1].running = TRUE)

\* C12, witness: build 1 passed and a later build is in progress: current is
\* running while status is passing.
C12_Witness ==
  /\ pc = "returned"
  /\ job.lastCompletedBuild = Num(1)
  /\ job.lastSuccessfulBuild = Num(1)
  /\ job.lastBuild = Num(2)
  /\ ~job.inQueue
  /\ data[1].current = "running"
  /\ data[1].status = "passing"
  /\ data[1].running

\* C13, as claimed: running is true exactly when a build is queued or a build
\* number exists beyond the last build that finished, which includes the
\* first build of a job, started and not finished.
C13_RunningIffQueuedOrBeyond ==
  pc = "returned" =>
    data[1].running =
      ( \/ job.inQueue
        \/ /\ job.lastBuild # Null
           /\ \/ job.lastCompletedBuild = Null
              \/ job.lastCompletedBuild.v < job.lastBuild.v )

\* ----------------------------------------------------- claims: watchProject

\* The watch has ended: nothing is pending any more.
Ended == pc \in {"done", "stopped", "crashed"}

\* C1, as claimed: when a snapshot fetch or a log fetch of the watch failed,
\* the promise watchProject returned is rejected; it is neither left pending
\* nor resolved once the watch has ended.
C1_FailureRejects ==
  (failure # "none" /\ Ended) => outer = "rejected"

\* C4, as claimed: once two distinct build numbers were observed across the
\* polls of one watch, the iteration fetches no log and shows no ETA, and no
\* further poll is issued.
C4_HandOffStops ==
  Len(seen) >= 2 =>
    /\ pc \notin {"status", "log"}
    /\ last.log = "none"
    /\ "queued" \notin last.shown

\* C5, as claimed: when the final status has no build, the status the watch
\* resolves with has the last build number observed during the watch.
C5_FinalBuildIsLastObserved ==
  (pc = "done" /\ seen # << >> /\ ~Truthy(BuildIdOf(job, runningProject))) =>
    result[1].build = seen[Len(seen)]

\* C6, as claimed: the idle indicator is shown once per threshold crossing: an
\* iteration that follows one that showed it, and that printed no new output,
\* does not show it again.
C6_IdleShownOnce ==
  (last.log = "fetched" /\ last.printed = 0 /\ "idle" \in last.before) =>
    "idle" \notin last.shown

\* C6, amended: the idle indicator is shown in every tailing iteration whose
\* log is not at the truncation limit and that finds more than 3000 ms passed
\* since the last printed output, also in the polls that follow one another
\* without new output; an iteration that printed new output does not show it.
C6_IdleShownWhileIdle ==
  (pc = "timer" /\ last.log = "fetched") =>
    /\ "idle" \in last.shown <=>
         (last.len # TruncatedLength /\ now - lastChange > IdleThreshold)
    /\ last.printed > 0 => "idle" \notin last.shown

\* C6, witness: two tailing iterations in a row showed the idle indicator.
C6_Witness ==
  /\ pc = "timer"
  /\ last.log = "fetched"
  /\ last.printed = 0
  /\ "idle" \in last.before
  /\ "idle" \in last.shown

\* A step in which getBuildLog resolves and the log is handled.
LogHandled == pc = "log" /\ pc' = "timer" /\ last'.log = "fetched"

\* C7: line never decreases, it advances by exactly the number of lines the
\* iteration printed, and a poll that fetches the log fetched before (same
\* build, same length) prints nothing and leaves line and lastChange as they
\* were.
C7_TailMonotone ==
  [][ /\ line' >= line
      /\ LogHandled => line' = line + last'.printed
      /\ ~LogHandled => line' = line
      /\ (LogHandled /\ last'.repeated) =>
           (last'.printed = 0 /\ line' = line /\ lastChange' = lastChange)
    ]_vars

\* C7, witness: a poll fetched the same log again and printed nothing, after
\* lines had been printed.
C7_Witness ==
  /\ pc = "timer"
  /\ last.log = "fetched"
  /\ last.repeated
  /\ last.printed = 0
  /\ line = last.len
  /\ line > 1

\* C8: a tailing iteration shows the truncation warning exactly when the
\* fetched log has 10000 lines, and then it does not show the idle indicator.
C8_TruncationBoundary ==
  (pc = "timer" /\ last.log = "fetched") =>
    /\ "truncated" \in last.shown <=> last.len = TruncatedLength
    /\ "truncated" \in last.shown => "idle" \notin last.shown

\* C8, witness: a log of 10000 lines was fetched more than 3000 ms after the
\* last output, and the warning was shown.
C8_Witness ==
  /\ pc = "timer"
  /\ last.log = "fetched"
  /\ last.len = TruncatedLength
  /\ now - lastChange > IdleThreshold
  /\ last.shown = {"truncated"}

\* C8, second witness: logs one line short of, and one line beyond, the limit
\* are fetched too.
C8_WitnessAround ==
  /\ pc = "timer"
  /\ last.log = "fetched"
  /\ last.len \in {TruncatedLength - 1, TruncatedLength + 1}
  /\ "truncated" \notin last.shown

\* The latest poll resolved a status that is not running.
Stopping == data # << >> /\ ~data[1].running

\* The latest poll resolved a running status, and fewer than two distinct
\* build numbers were resolved so far.
Going == data # << >> /\ data[1].running /\ Len(seen) < 2

\* C14: watching an already running project, the iteration whose status is
\* not running shows that no build is active, fetches no log, and is the last
\* polling iteration; when no fetch fails the watch ends with the returned
\* promise resolved with a status, never rejected.
C14_InactiveEndsWatch ==
  (runningProject /\ Stopping) =>
    /\ pc \in {"timer", "final", "done", "reported", "stopped"}
    /\ last.running = FALSE
    /\ last.shown = {"inactive"}
    /\ last.log = "none"
    /\ outer # "rejected"
    /\ pc = "stopped" => failure = "final"
    /\ pc \in {"done", "reported"} => (outer = "resolved" /\ Len(result) = 1)

\* C14, witness: the watch of a running project has resolved after an
\* iteration that found no active build and showed it.
C14_Witness ==
  /\ runningProject
  /\ Stopping
  /\ pc = "done"
  /\ outer = "resolved"
  /\ last.shown = {"inactive"}
  /\ last.log = "none"
  /\ count >= 2

\* C15: once a poll resolved a status that is not running, and no fetch
\* fails, no further polling iteration is issued, the one final snapshot
\* fetch is issued after the delay, the returned promise is resolved once,
\* by that fetch, and nothing is fetched afterwards; while the polled status
\* is running and fewer than two distinct builds were resolved, the promise
\* stays pending and the timer issues the next polling iteration.
C15_Termination ==
  [][ /\ Stopping => pc' \notin {"status", "log"}
      /\ (Stopping /\ pc = "timer") =>
           (pc' = "final" /\ now' >= now + Delay /\ count' = count)
      /\ (pc' = "final" /\ pc # "final") => (pc = "timer" /\ Stopping)
      /\ pc = "final" =>
           (pc' \in {"final", "done", "stopped"} /\ count' = count)
      /\ (outer' = "resolved" /\ outer # "resolved") =>
           (pc = "final" /\ outer = "pending" /\ Len(result') = 1)
      /\ outer = "resolved" =>
           (outer' = outer /\ result' = result /\ pc' \in {"done", "reported"})
      /\ Going => (outer = "pending" /\ outer' = "pending"
                    /\ pc' \notin {"final", "done"})
      /\ (Going /\ pc = "timer") => pc' = "status"
    ]_vars

\* C15, witness: three polls resolved a running status, the fourth did not,
\* and the watch resolved after one final fetch, at least a delay after each.
C15_Witness ==
  /\ pc = "done"
  /\ failure = "none"
  /\ outer = "resolved"
  /\ Stopping
  /\ count = MaxPolls
  /\ now >= MaxPolls * Delay

\* C16, as claimed: the watch command reports passed with severity info when
\* the status the watch resolved with is passing, and failed with severity
\* warn only when it is not.
C16_WatchClassifies ==
  (pc = "reported" /\ runningProject) =>
    IF result[1].status = "passing"
    THEN report = [severity |-> "info", message |-> "passed"]
    ELSE report = [severity |-> "warn", message |-> "failed"]

\* C17, as claimed: a polling iteration adds one to count and appends the
\* resolved build number to builds when it differs from the last entry; the
\* final pass changes neither.
C17_CountsAndObserves ==
  [][ /\ (pc = "status" /\ pc' \in {"log", "timer"}) =>
           /\ count' = count + 1
           /\ builds' = Observe(builds, data'[1].build)
      /\ pc # "status" => (count' = count /\ builds' = builds)
    ]_vars

\* C18: after a snapshot fetch or a log fetch failed, the watch issues no
\* snapshot fetch and no log fetch, and prints no log line.
C18_NoRetry ==
  [][ failure' # "none" =>
        /\ pc' \in {"stopped", "timer", "crashed"}
        /\ line' = line
        /\ count' = count
        /\ logBuild' = logBuild
    ]_vars

\* C18, witness: a log fetch failed after lines were printed and two polls
\* were made, and the watch has come to its end without another fetch.
C18_Witness ==
  /\ failure = "log"
  /\ pc = "crashed"
  /\ line > 0
  /\ count >= 2
  /\ last.log = "failed"

\* C19: the snapshot fetch of an iteration is issued only by the timer, a
\* delay after it was set; the timer is set only when the snapshot fetch of
\* the iteration, and its log fetch when it tails, have completed; count and
\* builds change only when a snapshot fetch completes, line and lastChange
\* only when a log fetch completes, never in one step.
C19_OneIterationInFlight ==
  [][ /\ (pc' = "status" /\ pc # "status") =>
           (pc = "timer" /\ now' >= now + Delay)
      /\ (pc' = "log" /\ pc # "log") => (pc = "status" /\ count' = count + 1)
      /\ (pc' = "timer" /\ pc # "timer") =>
           \/ pc = "status" /\ ~Tails(data'[1], runningProject)
           \/ pc = "log"
      /\ (pc = "status" /\ pc' = "status") => UNCHANGED << count, builds >>
      /\ (count' # count \/ builds' # builds) =>
           (pc = "status" /\ line' = line /\ lastChange' = lastChange)
      /\ (line' # line \/ lastChange' # lastChange) =>
           (pc = "log" /\ pc' = "timer")
    ]_vars

\* C19, witness: the log fetch of the third iteration is pending, two delays
\* after the start, the second iteration having fetched and printed a log.
C19_Witness ==
  /\ pc = "log"
  /\ count = 3
  /\ now >= 2 * Delay
  /\ last.log = "fetched"
  /\ line > 0

\* C20, as claimed: after an iteration that fetched a log, the number of
\* lines printed so far is the number of lines of that log.
C20_TailComplete ==
  last.log = "fetched" => line = last.len

\* C21, as claimed: every status the watch resolves with has running = false,
\* and no build of the job is executing or queued when the watch resolves,
\* whatever the server did between the last poll and the final fetch.
C21_ResolvedNotRunning ==
  outer = "resolved" =>
    /\ ~result[1].running
    /\ ~job.inQueue
    /\ job.lastCompletedBuild = job.lastBuild

====
